---- MODULE Spec2Model ----
(***************************************************************************)
(* Basket feasibility and assembly of the "Sistema ASA" panel.             *)
(*                                                                         *)
(* Spec      : the Supabase-backed variant (CestasManager.registerBasket,  *)
(*             App.loadAll, App.saveItem), two clients sharing the         *)
(*             persisted tables "estoque" and "configuracoes".             *)
(* SpecSolo  : one editor of that variant, editing the recipe as well.     *)
(* SpecCalc  : the local-state variant (BasketCalculator.stats / assemble  *)
(*             and InventoryManager of App.tsx).                           *)
(* SpecTab   : the CestasTab variant, whose recipe is edited by line index. *)
(***************************************************************************)
EXTENDS Integers, Sequences, FiniteSets, TLC

\* ------------------------------------------------------------------ bounds
MaxQty == 2        \* largest quantity typed into a stock form / stored at start
MaxQtd == 2        \* largest per-basket quantity typed into a recipe line
MaxCestas == 2     \* largest number typed into "Quantidade de cestas"
MaxOps == 2        \* handler invocations explored per behaviour of two clients
MaxSoloOps == 3    \* handler invocations explored per behaviour of one client
MaxBaskets == 2    \* assemblies explored per behaviour of the local calculator
MaxTabOps == 3     \* handler invocations explored per behaviour of the Cestas tab
MaxLines == 2      \* most recipe lines the Cestas tab is taken to
MaxThreshold == 2  \* largest minThreshold typed into a stock form
MaxEvents == 3     \* event ids there are
MaxEvOps == 3      \* add/remove invocations explored per behaviour of the events page
MaxAuthOps == 4    \* sign-ins, sign-outs and role changes explored per behaviour
MaxFetches == 2    \* most fetchMyProfile calls in flight at once

Items == {"arroz", "feijao"}
Clients == {"c1", "c2"}
SavedItems == {"arroz"}   \* the rows the stock form is opened on
NoRow == <<>>       \* the key has no row in "configuracoes"
DefaultName == "Cesta Basica Padrao"

QtyInputs == (0 - 1)..MaxQty
QtdInputs == (0 - 1)..MaxQtd
CestasInputs == 1..MaxCestas
InvalidCestas == {0 - 1, 0}    \* what the min={1} of the input is meant to exclude
LineQtdInputs == {0 - 1, 0, MaxQtd}   \* typed into a recipe line: negative, empty, positive
AddQtdInputs == LineQtdInputs \cup {5}
Names == {DefaultName, "Cesta de Natal"}
TabNames == Names \cup {""}          \* the name field can be emptied

\* ------------------------------------------------------------ pure helpers
EmptyInv == [i \in {} |-> 0]
NoLocal == [inventory |-> EmptyInv, assembledBaskets |-> 0,
            basketConfig |-> [name |-> DefaultName, items |-> <<>>]]

\* Number(inv?.quantidade ?? 0)
Have(inv, id) == IF id \in DOMAIN inv THEN inv[id] ELSE 0

\* const n = Math.max(1, Number(qtdCestas || 1))
ClampN(qtdCestas) == IF qtdCestas > 1 THEN qtdCestas ELSE 1

\* const need = Number(it.quantidade ?? 0) * n
NeedOf(quantidade, n) == quantidade * n

\* the "needed" array built by the validation loop
NeededOf(items, inv, n) ==
  [j \in 1..Len(items) |->
     [id   |-> items[j].estoque_id,
      need |-> NeedOf(items[j].quantidade, n),
      have |-> Have(inv, items[j].estoque_id)]]

\* (mutant: the message names the first failing line only)
InsufficientFirstOnly(nd) ==
  LET js == {j \in 1..Len(nd) : nd[j].have < nd[j].need}
  IN IF js = {} THEN <<>> ELSE <<nd[CHOOSE j \in js : \A i \in js : j <= i]>>

\* needed.filter((x) => x.have < x.need)
Insufficient(nd) == SelectSeq(nd, LAMBDA x : x.have < x.need)

\* const next = current - it.need
NextQty(current, need) == current - need

\* const newCount = assembledBaskets + n
NewCount(assembled, n) == assembled + n

\* supabase.from("estoque").update({quantidade: next}).eq("id", id)
UpdateRow(table, id, qty) ==
  IF id \in DOMAIN table THEN [table EXCEPT ![id] = qty] ELSE table

\* basketConfig.items.some((x) => x.estoque_id === newItemId)
Already(items, id) == \E j \in 1..Len(items) : items[j].estoque_id = id

\* quantidade: Number(newItemQtd || 1)
NewLineQtd(newItemQtd) == IF newItemQtd = 0 THEN 1 ELSE newItemQtd

\* addItem: the items it sets (the same array when the item is already there)
AddedItems(items, id, newItemQtd) ==
  IF Already(items, id) THEN items
  ELSE Append(items, [estoque_id |-> id, quantidade |-> NewLineQtd(newItemQtd)])

\* addItem: the message it leaves in err
AddError(items, id) == IF Already(items, id) THEN "duplicate" ELSE "none"

\* updateItemQtd: items.map((it) => it.estoque_id === id ? {...it, quantidade: Number(qtd)} : it)
UpdatedItems(items, id, qtd) ==
  [j \in 1..Len(items) |->
     IF items[j].estoque_id = id THEN [items[j] EXCEPT !.quantidade = qtd] ELSE items[j]]

\* updateItemQtd: the message it leaves in err (it sets none)
UpdateError(items, id) == "none"

\* (mutant: removeItem dropping the first line, whatever its item)
RemovedFirst(items, id) ==
  IF Len(items) = 0 THEN items ELSE SubSeq(items, 2, Len(items))

\* removeItem: items.filter((it) => it.estoque_id !== id)
RemovedItems(items, id) == SelectSeq(items, LAMBDA it : it.estoque_id # id)

\* the value -> BasketConfig conversion of loadAll
ParseConfig(v) ==
  [name  |-> v.name,
   items |-> [j \in 1..Len(v.items) |->
                [estoque_id |-> v.items[j].estoque_id,
                 quantidade |-> v.items[j].quantidade]]]

\* ------------------------------------------------------------ permissions
Roles == {"viewer", "editor", "admin"}

\* canEdit: forceAdmin || role === "editor" || role === "admin", with a session
CanEditOf(hasSession, role, forceAdmin) ==
  hasSession /\ (forceAdmin \/ role = "editor" \/ role = "admin")

\* isAdmin: forceAdmin || role === "admin", with a session
IsAdminOf(hasSession, role, forceAdmin) ==
  hasSession /\ (forceAdmin \/ role = "admin")

\* ------------------------------------------------------------------- state
VARIABLES
  estoque,           \* table "estoque": id -> quantidade
  cfg_basket,        \* configuracoes["basket_config"]: <<value>>, or NoRow
  cfg_assembled,     \* configuracoes["assembled_baskets"]
  inventory,         \* per client: React state "inventory"
  basketConfig,      \* per client: React state "basketConfig"
  assembledBaskets,  \* per client: React state "assembledBaskets"
  canEdit,           \* per client: canEdit of the signed-in user
  pc,                \* per client: position inside an async handler
  sRead,             \* per client: rows read by loadAll, not yet set
  needed,            \* per client: "needed" of the running / last registerBasket
  nB,                \* per client: n of the running / last registerBasket
  k,                 \* per client: index of the line the apply loop is at
  outcome,           \* per client: how the last registerBasket ended
  asked,             \* per client: qtdCestas as typed for that registerBasket
  reported,          \* per client: the lines its "Estoque insuficiente" message names
  first,             \* per client: <<>>, or the first failed attempt of the request being retried
  preEstoque,        \* per client: table "estoque" when registerBasket began
  preCount,          \* per client: persisted counter when registerBasket began
  preLocal,          \* per client: its inventory, counter and recipe when registerBasket began
  savedBy,           \* per item: the client whose saveItem wrote it last, or "nobody"
  foreign,           \* per client: writes by others since its registerBasket began:
                     \*   "none", "assembly" (another registerBasket) or "manual"
  edit,              \* per client: its last recipe edit (handler, item, error, recipe before)
  ops,               \* handler invocations so far
  budget,            \* handler invocations explored in this behaviour
  calcInventory,     \* App.tsx: React state "inventory" (id -> quantity)
  calcConfig,        \* App.tsx: React state "basketConfig"
  baskets,           \* App.tsx: React state "baskets"
  calcCanEdit,       \* App.tsx: canEdit of the signed-in user
  calcLast,          \* App.tsx: the handler that ran last
  calcPre,           \* App.tsx: inventory and baskets when the last assemble began
  calcAdj,           \* App.tsx: the last adjustQty (item, delta, quantity before, error)
  tabInventory,      \* part_003: React state "inventory", rows in the order loaded
  tabConfig,         \* part_003: React state "basketConfig"
  tabAssembled,      \* part_003: React state "assembledBaskets"
  tabCanEdit,        \* part_003: canEdit of the signed-in user
  tabIsAdmin,        \* part_003: isAdmin of the signed-in user
  tabLast,           \* part_003: the last handler of the tab (handler, line, recipe before)
  alertRows,         \* low-stock lists: the inventory rows (id -> quantity, minThreshold)
  lowStock,          \* low-stock lists: per variant, the ids its list shows
  alertLast,         \* low-stock lists: the id saved or deleted last
  eventos_entrega,   \* events: the ids of the rows of table "eventos_entrega"
  events,            \* events: per client, React state "events" (ids, newest first)
  evPc,              \* events: per client, "mount", "idle", "delete" or "insert"
  evNext,            \* events: per client, the list "next" its saveEvents is writing
  evCanEdit,         \* events: per client, canEdit of its user
  evLast,            \* events: per client, its last add/remove (handler, event, table
                     \*   when it began, whether another client wrote since)
  evOps,             \* events: handler invocations so far
  adminEmails,       \* accounts: the e-mails of VITE_ADMIN_EMAILS
  profiles,          \* accounts: table "profiles" (user -> role, or "absent")
  session,           \* accounts: React state "session" (user and the number of its sign-in)
  profile,           \* accounts: React state "profile"
  fetches,           \* accounts: the fetchMyProfile calls in flight
  rolePending,       \* accounts: a setRole has written and is awaiting load()
  newAccounts,       \* accounts: users whose profile row fetchMyProfile inserted and
                     \*   no setRole has touched
  authLast,          \* accounts: the fetch that called setProfile last (kind, the
                     \*   sign-in it began under, the sign-in current when it ended)
  authOps            \* accounts: sign-ins, sign-outs and role changes so far

dbVars == <<estoque, cfg_basket, cfg_assembled>>
localVars == <<inventory, basketConfig, assembledBaskets>>
regVars == <<needed, nB, k, outcome, asked, reported, preEstoque, preCount, preLocal>>
coreVars == <<estoque, cfg_basket, cfg_assembled, inventory, basketConfig,
          assembledBaskets, canEdit, pc, sRead, needed, nB, k, outcome,
          asked, reported, first,
          preEstoque, preCount, preLocal, savedBy, foreign, edit, ops, budget, edit>>
calcVars == <<calcInventory, calcConfig, baskets, calcCanEdit, calcLast, calcPre, calcAdj>>
tabVars == <<tabInventory, tabConfig, tabAssembled, tabCanEdit, tabIsAdmin, tabLast>>
\* what the clients of part_009 hold, the tables and the budget apart
clientVars == <<inventory, basketConfig, assembledBaskets, canEdit, pc, sRead,
            needed, nB, k, outcome, asked, reported, first,
            preEstoque, preCount, preLocal, savedBy, foreign, edit>>
alertVars == <<alertRows, lowStock, alertLast>>
\* the variables of the pages that stand apart from basket assembly
eventVars == <<eventos_entrega, events, evPc, evNext, evCanEdit, evLast, evOps>>
authVars == <<adminEmails, profiles, session, profile, fetches, rolePending,
             newAccounts, authLast, authOps>>
sideVars == <<alertVars, eventVars, authVars>>
vars == <<coreVars, calcVars, tabVars, sideVars>>

\* what the tables hold when the clients start: a stocked pantry and either no
\* saved recipe, a one-line recipe or a two-line recipe
StoredConfigs ==
  { [name |-> DefaultName, items |-> <<[estoque_id |-> "arroz", quantidade |-> 1]>>],
    [name |-> DefaultName, items |-> <<[estoque_id |-> "arroz", quantidade |-> 1],
                                       [estoque_id |-> "feijao", quantidade |-> MaxQtd]>>] }

\* bookkeeping: no recipe edit since the client's last other handler
NoEdit == [op |-> "none", id |-> "", qtd |-> 0, found |-> FALSE, err |-> "none",
           before |-> [name |-> DefaultName, items |-> <<>>]]

\* the clients right after mounting: useState defaults, loadAll started by the
\* session effect; the tables hold `stored` and the roles are `roles`
CoreStart(stored, roles, b) ==
  /\ estoque = [i \in Items |-> MaxQty]
  /\ cfg_basket = stored
  /\ cfg_assembled = 0
  /\ inventory = [c \in Clients |-> EmptyInv]
  /\ basketConfig = [c \in Clients |-> [name |-> DefaultName, items |-> <<>>]]
  /\ assembledBaskets = [c \in Clients |-> 0]
  /\ canEdit = roles
  /\ pc = [c \in Clients |-> "loadEstoque"]
  /\ sRead = [c \in Clients |-> EmptyInv]
  /\ needed = [c \in Clients |-> <<>>]
  /\ nB = [c \in Clients |-> 0]
  /\ k = [c \in Clients |-> 0]
  /\ outcome = [c \in Clients |-> "none"]
  /\ asked = [c \in Clients |-> 1]
  /\ reported = [c \in Clients |-> <<>>]
  /\ first = [c \in Clients |-> <<>>]
  /\ preEstoque = [c \in Clients |-> EmptyInv]
  /\ preCount = [c \in Clients |-> 0]
  /\ preLocal = [c \in Clients |-> NoLocal]
  /\ savedBy = [i \in Items |-> "nobody"]
  /\ foreign = [c \in Clients |-> "manual"]
  /\ edit = [c \in Clients |-> NoEdit]
  /\ ops = 0
  /\ budget = b

\* (mutant: every signed-in user passes the permission check)
MayEditAnyone(c) == TRUE

\* if (!canEdit) return / disabled={!canEdit || busy}
MayEdit(c) == canEdit[c]

\* bookkeeping: one more handler invocation, while the budget lasts
Charged ==
  /\ ops < budget
  /\ ops' = ops + 1
  /\ UNCHANGED budget

\* bookkeeping: the record of a registerBasket lasts until the client's next handler
Forget(c) ==
  /\ needed' = [needed EXCEPT ![c] = <<>>]
  /\ nB' = [nB EXCEPT ![c] = 0]
  /\ outcome' = [outcome EXCEPT ![c] = "none"]
  /\ asked' = [asked EXCEPT ![c] = 1]
  /\ reported' = [reported EXCEPT ![c] = <<>>]
  /\ preEstoque' = [preEstoque EXCEPT ![c] = EmptyInv]
  /\ preCount' = [preCount EXCEPT ![c] = 0]
  /\ preLocal' = [preLocal EXCEPT ![c] = NoLocal]
  /\ UNCHANGED k

\* bookkeeping for retries: what a request asks for, whether the client's view
\* agreed with the tables when the attempt began, and the record of a failed attempt
RequestOf(nd) == [j \in 1..Len(nd) |-> [id |-> nd[j].id, need |-> nd[j].need]]
Agrees(nd, table, local, count) ==
  /\ \A j \in 1..Len(nd) : nd[j].have = Have(table, nd[j].id)
  /\ local = count
FailedAttempt(table, count, n, nd, local) ==
  [estoque |-> table, count |-> count, n |-> n, request |-> RequestOf(nd),
   fresh |-> Agrees(nd, table, local, count), done |-> FALSE]
IsRetry(c, n, nd) ==
  /\ first[c] # <<>>
  /\ ~first[c][1].done
  /\ first[c][1].n = n
  /\ first[c][1].request = RequestOf(nd)
\* a write by client c ends the retry chains of the others
OthersDisturbed(c) == [d \in Clients |-> IF d = c THEN first[c] ELSE <<>>]
\* the attempt of client c that has just failed starts a chain, or continues one
ChainFailed(c) ==
  [first EXCEPT ![c] =
     IF @ # <<>> THEN @
     ELSE <<FailedAttempt(preEstoque[c], preCount[c], nB[c], needed[c],
                          preLocal[c].assembledBaskets)>>]

\* bookkeeping: client c wrote as part of its registerBasket / somebody saved an item
AssemblyWrite(c) ==
  [d \in Clients |-> IF d # c /\ foreign[d] = "none" THEN "assembly" ELSE foreign[d]]
ManualWrite == [d \in Clients |-> "manual"]

\* ------------------------------------------------------------ App.loadAll
\* const s = await supabase.from("estoque").select(...)
LoadEstoqueOk(c) ==
  /\ pc[c] = "loadEstoque"
  /\ sRead' = [sRead EXCEPT ![c] = estoque]
  /\ pc' = [pc EXCEPT ![c] = "loadCfg"]
  /\ UNCHANGED <<dbVars, savedBy, localVars, canEdit, regVars, first, foreign, ops, budget, edit>>

\* if (s.error) throw s.error  -> catch: setDataErr
LoadEstoqueErr(c) ==
  /\ pc[c] = "loadEstoque"
  /\ pc' = [pc EXCEPT ![c] = "idle"]
  /\ UNCHANGED <<dbVars, savedBy, localVars, canEdit, sRead, regVars, first, foreign, ops, budget, edit>>

\* cfg read succeeded: setBasketConfig / setAssembledBaskets, then setEstoque
LoadCfgOk(c) ==
  /\ pc[c] = "loadCfg"
  /\ basketConfig' = [basketConfig EXCEPT ![c] =
        IF cfg_basket # NoRow THEN ParseConfig(cfg_basket[1]) ELSE @]
  /\ assembledBaskets' = [assembledBaskets EXCEPT ![c] = cfg_assembled]
  /\ inventory' = [inventory EXCEPT ![c] = sRead[c]]
  /\ sRead' = [sRead EXCEPT ![c] = EmptyInv]
  /\ pc' = [pc EXCEPT ![c] = "idle"]
  /\ UNCHANGED <<dbVars, savedBy, canEdit, regVars, first, foreign, ops, budget, edit>>

\* cfg.error: the configuration block is skipped, setEstoque still runs
LoadCfgErr(c) ==
  /\ pc[c] = "loadCfg"
  /\ inventory' = [inventory EXCEPT ![c] = sRead[c]]
  /\ sRead' = [sRead EXCEPT ![c] = EmptyInv]
  /\ pc' = [pc EXCEPT ![c] = "idle"]
  /\ UNCHANGED <<dbVars, savedBy, basketConfig, assembledBaskets, canEdit, regVars, first, foreign, ops, budget, edit>>

\* the "Recarregar dados" button
Reload(c) ==
  /\ pc[c] = "idle"
  /\ Charged
  /\ pc' = [pc EXCEPT ![c] = "loadEstoque"]
  /\ Forget(c)
  /\ edit' = [edit EXCEPT ![c] = NoEdit]
  /\ first' = [first EXCEPT ![c] = IF @ # <<>> /\ @[1].done THEN <<>> ELSE @]
  /\ foreign' = [foreign EXCEPT ![c] = "manual"]
  /\ UNCHANGED <<dbVars, savedBy, localVars, canEdit, sRead>>

\* ----------------------------------------------------------- App.saveItem
\* payload.quantidade = Number(formItem.quantidade || 0); update(...).eq("id", id)
SaveItemOk(c, id, qty) ==
  /\ pc[c] = "idle"
  /\ MayEdit(c)
  /\ id \in DOMAIN inventory[c]
  /\ Charged
  /\ estoque' = UpdateRow(estoque, id, qty)
  /\ savedBy' = [savedBy EXCEPT ![id] = c]
  /\ foreign' = ManualWrite
  /\ first' = [d \in Clients |-> <<>>]
  /\ pc' = [pc EXCEPT ![c] = "loadEstoque"]
  /\ Forget(c)
  /\ edit' = [edit EXCEPT ![c] = NoEdit]
  /\ UNCHANGED <<cfg_basket, cfg_assembled, localVars, canEdit, sRead>>

\* if (error) throw error  -> catch: setDataErr
SaveItemErr(c, id) ==
  /\ pc[c] = "idle"
  /\ MayEdit(c)
  /\ id \in DOMAIN inventory[c]
  /\ Charged
  /\ Forget(c)
  /\ edit' = [edit EXCEPT ![c] = NoEdit]
  /\ first' = [first EXCEPT ![c] = <<>>]
  /\ foreign' = [foreign EXCEPT ![c] = "manual"]
  /\ UNCHANGED <<dbVars, savedBy, localVars, canEdit, pc, sRead>>

\* ------------------------------------------- CestasManager: recipe editing
\* bookkeeping: what a recipe edit leaves in the record
Edited(c, op, id, qtd, err) ==
  [op |-> op, id |-> id, qtd |-> qtd, found |-> Already(basketConfig[c].items, id),
   err |-> err, before |-> basketConfig[c]]

\* the "Adicionar" button (newItemId chosen among the inventory rows)
AddItem(c, id, qtd) ==
  /\ pc[c] = "idle"
  /\ MayEdit(c)
  /\ id \in DOMAIN inventory[c]
  /\ Charged
  /\ basketConfig' = [basketConfig EXCEPT ![c].items = AddedItems(@, id, qtd)]
  /\ edit' = [edit EXCEPT ![c] =
        Edited(c, "add", id, NewLineQtd(qtd), AddError(basketConfig[c].items, id))]
  /\ Forget(c)
  /\ first' = [first EXCEPT ![c] = <<>>]
  /\ foreign' = [foreign EXCEPT ![c] = "manual"]
  /\ UNCHANGED <<dbVars, savedBy, inventory, assembledBaskets, canEdit, pc, sRead>>

\* updateItemQtd(id, qtd); the handler does not look the line up
UpdateItemQtd(c, id, qtd) ==
  /\ pc[c] = "idle"
  /\ MayEdit(c)
  /\ Charged
  /\ basketConfig' = [basketConfig EXCEPT ![c].items = UpdatedItems(@, id, qtd)]
  /\ edit' = [edit EXCEPT ![c] =
        Edited(c, "update", id, qtd, UpdateError(basketConfig[c].items, id))]
  /\ Forget(c)
  /\ first' = [first EXCEPT ![c] = <<>>]
  /\ foreign' = [foreign EXCEPT ![c] = "manual"]
  /\ UNCHANGED <<dbVars, savedBy, inventory, assembledBaskets, canEdit, pc, sRead>>

\* the "Remover" button of a line; a removal that follows the addition of the
\* same item is recorded as "undo", with the recipe from before the addition
RemoveItem(c, id) ==
  /\ pc[c] = "idle"
  /\ MayEdit(c)
  /\ Already(basketConfig[c].items, id)
  /\ Charged
  /\ basketConfig' = [basketConfig EXCEPT ![c].items = RemovedItems(@, id)]
  /\ edit' = [edit EXCEPT ![c] =
        IF @.op = "add" /\ @.id = id /\ ~@.found
        THEN [@ EXCEPT !.op = "undo"]
        ELSE Edited(c, "remove", id, 0, "none")]
  /\ Forget(c)
  /\ first' = [first EXCEPT ![c] = <<>>]
  /\ foreign' = [foreign EXCEPT ![c] = "manual"]
  /\ UNCHANGED <<dbVars, savedBy, inventory, assembledBaskets, canEdit, pc, sRead>>

\* the "Nome da cesta" input
SetName(c, v) ==
  /\ pc[c] = "idle"
  /\ Charged
  /\ basketConfig' = [basketConfig EXCEPT ![c].name = v]
  /\ edit' = [edit EXCEPT ![c] = Edited(c, "rename", "", 0, "none")]
  /\ Forget(c)
  /\ first' = [first EXCEPT ![c] = <<>>]
  /\ foreign' = [foreign EXCEPT ![c] = "manual"]
  /\ UNCHANGED <<dbVars, savedBy, inventory, assembledBaskets, canEdit, pc, sRead>>

\* (mutant: a saveConfig that also resets the stock rows)
SaveConfigOkResettingStock(c) ==
  /\ pc[c] = "idle"
  /\ MayEdit(c)
  /\ Charged
  /\ cfg_basket' = <<basketConfig[c]>>
  /\ estoque' = [i \in DOMAIN estoque |-> 0]
  /\ edit' = [edit EXCEPT ![c] = Edited(c, "save", "", 0, "none")]
  /\ Forget(c)
  /\ first' = [first EXCEPT ![c] = <<>>]
  /\ foreign' = [foreign EXCEPT ![c] = "manual"]
  /\ UNCHANGED <<cfg_assembled, savedBy, localVars, canEdit, pc, sRead>>

\* upsert([{key: "basket_config", value: basketConfig}])
SaveConfigOk(c) ==
  /\ pc[c] = "idle"
  /\ MayEdit(c)
  /\ Charged
  /\ cfg_basket' = <<basketConfig[c]>>
  /\ edit' = [edit EXCEPT ![c] = Edited(c, "save", "", 0, "none")]
  /\ Forget(c)
  /\ first' = [first EXCEPT ![c] = <<>>]
  /\ foreign' = [foreign EXCEPT ![c] = "manual"]
  /\ UNCHANGED <<estoque, cfg_assembled, savedBy, localVars, canEdit, pc, sRead>>

SaveConfigErr(c) ==
  /\ pc[c] = "idle"
  /\ MayEdit(c)
  /\ Charged
  /\ edit' = [edit EXCEPT ![c] = Edited(c, "save", "", 0, "save")]
  /\ Forget(c)
  /\ first' = [first EXCEPT ![c] = <<>>]
  /\ foreign' = [foreign EXCEPT ![c] = "manual"]
  /\ UNCHANGED <<dbVars, savedBy, localVars, canEdit, pc, sRead>>

\* ------------------------------------------ CestasManager.registerBasket
\* (mutant: the validation without the empty-recipe return)
RegisterResultNoEmptyCheck(items, nd) ==
  IF Len(Insufficient(nd)) > 0 THEN "insufficient" ELSE "applying"

\* the synchronous part: n, the empty-recipe return, the stock validation
RegisterResult(items, nd) ==
  IF Len(items) = 0 THEN "empty"
  ELSE IF Len(Insufficient(nd)) > 0 THEN "insufficient"
  ELSE "applying"

RegisterStart(c, qtdCestas) ==
  /\ pc[c] = "idle"
  /\ MayEdit(c)
  /\ LET n == ClampN(qtdCestas)
         items == basketConfig[c].items
         nd == NeededOf(items, inventory[c], n)
         res == RegisterResult(items, nd)
         retry == IsRetry(c, n, nd)
     IN /\ Charged
        /\ nB' = [nB EXCEPT ![c] = n]
        /\ needed' = [needed EXCEPT ![c] = nd]
        /\ outcome' = [outcome EXCEPT ![c] = res]
        /\ asked' = [asked EXCEPT ![c] = qtdCestas]
        /\ reported' = [reported EXCEPT ![c] =
              IF res = "insufficient" THEN Insufficient(nd) ELSE <<>>]
        /\ first' = [first EXCEPT ![c] =
              IF retry THEN @
              ELSE IF res = "insufficient"
                   THEN <<FailedAttempt(estoque, cfg_assembled, n, nd, assembledBaskets[c])>>
                   ELSE <<>>]
        /\ pc' = [pc EXCEPT ![c] = IF res # "applying" THEN "idle"
                                   ELSE IF Len(nd) > 0 THEN "apply" ELSE "counter"]
        /\ k' = [k EXCEPT ![c] = IF res = "applying" /\ Len(nd) > 0 THEN 1 ELSE 0]
  /\ preEstoque' = [preEstoque EXCEPT ![c] = estoque]
  /\ preCount' = [preCount EXCEPT ![c] = cfg_assembled]
  /\ preLocal' = [preLocal EXCEPT ![c] =
        [inventory |-> inventory[c], assembledBaskets |-> assembledBaskets[c],
         basketConfig |-> basketConfig[c]]]
  /\ foreign' = [foreign EXCEPT ![c] = "none"]
  /\ edit' = [edit EXCEPT ![c] = NoEdit]
  /\ UNCHANGED <<dbVars, savedBy, localVars, canEdit, sRead>>

\* if (!canEdit) { setErr("Voce esta em modo somente leitura."); return; }
RegisterDenied(c) ==
  /\ pc[c] = "idle"
  /\ ~MayEdit(c)
  /\ Charged
  /\ nB' = [nB EXCEPT ![c] = 0]
  /\ needed' = [needed EXCEPT ![c] = <<>>]
  /\ outcome' = [outcome EXCEPT ![c] = "denied"]
  /\ asked' = [asked EXCEPT ![c] = 1]
  /\ reported' = [reported EXCEPT ![c] = <<>>]
  /\ first' = [first EXCEPT ![c] = <<>>]
  /\ preEstoque' = [preEstoque EXCEPT ![c] = estoque]
  /\ preCount' = [preCount EXCEPT ![c] = cfg_assembled]
  /\ preLocal' = [preLocal EXCEPT ![c] =
        [inventory |-> inventory[c], assembledBaskets |-> assembledBaskets[c],
         basketConfig |-> basketConfig[c]]]
  /\ foreign' = [foreign EXCEPT ![c] = "none"]
  /\ edit' = [edit EXCEPT ![c] = NoEdit]
  /\ UNCHANGED <<dbVars, savedBy, localVars, canEdit, pc, sRead, k>>

\* one iteration of the "baixa" loop whose update succeeded
ApplyLineOk(c) ==
  /\ pc[c] = "apply"
  /\ LET it == needed[c][k[c]]
         current == Have(inventory[c], it.id)
         next == NextQty(current, it.need)
     IN estoque' = UpdateRow(estoque, it.id, next)
  /\ k' = [k EXCEPT ![c] = IF @ < Len(needed[c]) THEN @ + 1 ELSE 0]
  /\ pc' = [pc EXCEPT ![c] = IF k[c] < Len(needed[c]) THEN "apply" ELSE "counter"]
  /\ foreign' = AssemblyWrite(c)
  /\ first' = OthersDisturbed(c)
  /\ UNCHANGED <<cfg_basket, cfg_assembled, savedBy, localVars, canEdit, sRead,
                 needed, nB, outcome, asked, reported, preEstoque, preCount, preLocal, ops, budget, edit>>

\* if (error) { setErr("Erro ao dar baixa no item: ..."); return; }
ApplyLineErr(c) ==
  /\ pc[c] = "apply"
  /\ outcome' = [outcome EXCEPT ![c] = "lineErr"]
  /\ pc' = [pc EXCEPT ![c] = "idle"]
  /\ first' = ChainFailed(c)
  /\ UNCHANGED <<dbVars, savedBy, localVars, canEdit, sRead, needed, nB, k,
                 asked, reported, preEstoque, preCount, preLocal, foreign, ops, budget, edit>>

\* upsert assembled_baskets = newCount; setAssembledBaskets; await onReload()
CounterOk(c) ==
  /\ pc[c] = "counter"
  /\ LET newCount == NewCount(assembledBaskets[c], nB[c])
     IN /\ cfg_assembled' = newCount
        /\ assembledBaskets' = [assembledBaskets EXCEPT ![c] = newCount]
  /\ outcome' = [outcome EXCEPT ![c] = "ok"]
  /\ pc' = [pc EXCEPT ![c] = "loadEstoque"]
  /\ foreign' = AssemblyWrite(c)
  /\ first' = [d \in Clients |->
                 IF d # c THEN <<>>
                 ELSE IF first[c] = <<>> THEN <<>>
                 ELSE <<[first[c][1] EXCEPT !.done = TRUE]>>]
  /\ UNCHANGED <<estoque, cfg_basket, savedBy, inventory, basketConfig, canEdit, sRead,
                 needed, nB, k, asked, reported, preEstoque, preCount, preLocal, ops, budget, edit>>

\* if (cfgErr) { setErr("Baixa feita, mas falhou ao atualizar contador"); return; }
CounterErr(c) ==
  /\ pc[c] = "counter"
  /\ outcome' = [outcome EXCEPT ![c] = "cntErr"]
  /\ pc' = [pc EXCEPT ![c] = "idle"]
  /\ first' = ChainFailed(c)
  /\ UNCHANGED <<dbVars, savedBy, localVars, canEdit, sRead, needed, nB, k,
                 asked, reported, preEstoque, preCount, preLocal, foreign, ops, budget, edit>>

\* loadAll and the button that runs it again
LoadAll(c) ==
    \/ LoadEstoqueOk(c)
    \/ LoadEstoqueErr(c)
    \/ LoadCfgOk(c)
    \/ LoadCfgErr(c)
    \/ Reload(c)

\* the stock form
StockForm(c) ==
    \/ \E id \in SavedItems : \E qty \in QtyInputs : SaveItemOk(c, id, qty)
    \/ \E id \in SavedItems : SaveItemErr(c, id)

\* registerBasket, step by step
Register(c) ==
    \/ \E q \in CestasInputs : RegisterStart(c, q)
    \/ RegisterDenied(c)
    \/ ApplyLineOk(c)
    \/ ApplyLineErr(c)
    \/ CounterOk(c)
    \/ CounterErr(c)

\* everything one client can do to the shared tables
Core(c) ==
    \/ LoadAll(c)
    \/ StockForm(c)
    \/ Register(c)

\* editing and saving the recipe
Recipe(c) ==
    \/ \E id \in Items : \E qtd \in AddQtdInputs : AddItem(c, id, qtd)
    \/ \E id \in Items : \E qtd \in LineQtdInputs : UpdateItemQtd(c, id, qtd)
    \/ \E id \in Items : RemoveItem(c, id)
    \/ \E v \in Names : SetName(c, v)
    \/ SaveConfigOk(c)
    \/ SaveConfigErr(c)

\* =================================================================== App.tsx
\* InventoryManager and BasketCalculator: everything lives in React state
Unbounded == 9999
BigQty == Unbounded + 1
CalcQtyInputs == QtyInputs \cup {BigQty}

\* (mutant: an item that is not found counts as one unit)
StockOfAbsentAsOne(inv, id) == IF id \in DOMAIN inv THEN inv[id] ELSE 1

\* const stock = inv?.quantity || 0
StockOf(inv, id) == IF id \in DOMAIN inv THEN inv[id] ELSE 0

\* ci.quantityRequired > 0 ? Math.floor(stock / ci.quantityRequired) : 9999
Possible(stock, quantityRequired) ==
  IF quantityRequired > 0 THEN stock \div quantityRequired ELSE Unbounded

MinOf(S) == CHOOSE m \in S : \A x \in S : m <= x

\* stats.max
StatsMax(items, inv) ==
  IF Len(items) = 0 THEN 0
  ELSE MinOf({Possible(StockOf(inv, items[j].itemId), items[j].quantityRequired) :
                j \in 1..Len(items)})

\* basketConfig.items.find(x => x.itemId === invItem.id)
FindLine(items, id) ==
  LET js == {j \in 1..Len(items) : items[j].itemId = id}
  IN IF js = {} THEN 0 ELSE MinOf(js)

\* const newInv = inventory.map(...) of assemble
AssembledInv(items, inv) ==
  [id \in DOMAIN inv |->
     IF FindLine(items, id) = 0 THEN inv[id]
     ELSE inv[id] - items[FindLine(items, id)].quantityRequired]

\* Math.max(0, i.quantity + delta)
Adjusted(quantity, delta) == IF quantity + delta > 0 THEN quantity + delta ELSE 0

HasLine(items, id) == \E j \in 1..Len(items) : items[j].itemId = id

NoPre == [inventory |-> EmptyInv, baskets |-> 0]
NoAdj == [id |-> "", delta |-> 0, was |-> 0, err |-> "none"]

\* adjustQty: the error it reports (it has no error path)
AdjustError(quantity, delta) == "none"

CalcInit ==
  /\ calcInventory = EmptyInv
  /\ calcConfig = [name |-> "Padrao", items |-> <<>>]
  /\ baskets = 0
  /\ calcCanEdit \in BOOLEAN
  /\ calcLast = "none"
  /\ calcPre = NoPre
  /\ calcAdj = NoAdj

CalcIdle ==
  /\ calcInventory = EmptyInv
  /\ calcConfig = [name |-> "Padrao", items |-> <<>>]
  /\ baskets = 0
  /\ calcCanEdit = TRUE
  /\ calcLast = "none"
  /\ calcPre = NoPre
  /\ calcAdj = NoAdj

\* InventoryManager.handleSave, new item (id: Date.now().toString())
HandleSaveNew(id, qty) ==
  /\ calcCanEdit
  /\ id \notin DOMAIN calcInventory
  /\ ~HasLine(calcConfig.items, id)
  /\ calcInventory' = [x \in DOMAIN calcInventory \cup {id} |->
                         IF x = id THEN qty ELSE calcInventory[x]]
  /\ calcLast' = "save"
  /\ calcPre' = NoPre
  /\ calcAdj' = NoAdj
  /\ UNCHANGED <<calcConfig, baskets, calcCanEdit>>

\* InventoryManager.handleSave, editing.id set
HandleSaveEdit(id, qty) ==
  /\ calcCanEdit
  /\ id \in DOMAIN calcInventory
  /\ calcInventory' = [calcInventory EXCEPT ![id] = qty]
  /\ calcLast' = "save"
  /\ calcPre' = NoPre
  /\ calcAdj' = NoAdj
  /\ UNCHANGED <<calcConfig, baskets, calcCanEdit>>

\* InventoryManager.adjustQty (the +/- buttons)
AdjustQty(id, delta) ==
  /\ calcCanEdit
  /\ id \in DOMAIN calcInventory
  /\ calcInventory[id] + delta <= MaxQty
  /\ calcInventory' = [calcInventory EXCEPT ![id] = Adjusted(@, delta)]
  /\ calcLast' = "adjust"
  /\ calcPre' = NoPre
  /\ calcAdj' = [id |-> id, delta |-> delta, was |-> calcInventory[id],
                 err |-> AdjustError(calcInventory[id], delta)]
  /\ UNCHANGED <<calcConfig, baskets, calcCanEdit>>

\* InventoryManager.handleDelete
HandleDelete(id) ==
  /\ calcCanEdit
  /\ id \in DOMAIN calcInventory
  /\ calcInventory' = [x \in DOMAIN calcInventory \ {id} |-> calcInventory[x]]
  /\ calcLast' = "delete"
  /\ calcPre' = NoPre
  /\ calcAdj' = NoAdj
  /\ UNCHANGED <<calcConfig, baskets, calcCanEdit>>

\* the "Adicionar item..." select and its button
CalcAddLine(id) ==
  /\ id \in DOMAIN calcInventory
  /\ ~HasLine(calcConfig.items, id)
  /\ calcConfig' = [calcConfig EXCEPT !.items =
                      Append(@, [itemId |-> id, quantityRequired |-> 1])]
  /\ calcLast' = "config"
  /\ calcPre' = NoPre
  /\ calcAdj' = NoAdj
  /\ UNCHANGED <<calcInventory, baskets, calcCanEdit>>

\* the quantity input of a line
CalcSetQuantity(id, qtd) ==
  /\ HasLine(calcConfig.items, id)
  /\ calcConfig' = [calcConfig EXCEPT !.items =
        [j \in 1..Len(@) |->
           IF @[j].itemId = id THEN [@[j] EXCEPT !.quantityRequired = qtd] ELSE @[j]]]
  /\ calcLast' = "config"
  /\ calcPre' = NoPre
  /\ calcAdj' = NoAdj
  /\ UNCHANGED <<calcInventory, baskets, calcCanEdit>>

\* the trash button of a line
CalcRemoveLine(id) ==
  /\ HasLine(calcConfig.items, id)
  /\ calcConfig' = [calcConfig EXCEPT !.items = SelectSeq(@, LAMBDA x : x.itemId # id)]
  /\ calcLast' = "config"
  /\ calcPre' = NoPre
  /\ calcAdj' = NoAdj
  /\ UNCHANGED <<calcInventory, baskets, calcCanEdit>>

\* BasketCalculator.assemble (the button is disabled while stats.max < 1)
Assemble ==
  /\ calcCanEdit
  /\ StatsMax(calcConfig.items, calcInventory) >= 1
  /\ baskets < MaxBaskets
  /\ calcInventory' = AssembledInv(calcConfig.items, calcInventory)
  /\ baskets' = baskets + 1
  /\ calcLast' = "assemble"
  /\ calcPre' = [inventory |-> calcInventory, baskets |-> baskets]
  /\ calcAdj' = NoAdj
  /\ UNCHANGED <<calcConfig, calcCanEdit>>

Calc ==
  \/ \E id \in Items : \E qty \in CalcQtyInputs : HandleSaveNew(id, qty)
  \/ \E id \in Items : \E qty \in CalcQtyInputs : HandleSaveEdit(id, qty)
  \/ \E id \in Items : \E delta \in {0 - 1, 1} : AdjustQty(id, delta)
  \/ \E id \in Items : HandleDelete(id)
  \/ \E id \in Items : CalcAddLine(id)
  \/ \E id \in Items : \E qtd \in QtdInputs : CalcSetQuantity(id, qtd)
  \/ \E id \in Items : CalcRemoveLine(id)
  \/ Assemble

\* ================================================================== part_003
\* CestasTab: the recipe is edited by line index; lines carry itemId and
\* quantityRequired; saveConfig writes the recipe and the counter
\* select("*").order("created_at", {ascending: false}): the rows as they come
StockRows == <<"arroz", "feijao">>
LoadedRows(table) ==
  LET ids == SelectSeq(StockRows, LAMBDA i : i \in DOMAIN table)
  IN [j \in 1..Len(ids) |-> [id |-> ids[j], quantity |-> table[ids[j]]]]

\* the value -> BasketConfig conversion of refreshAll
ParseTabConfig(v) ==
  [name  |-> IF v.name = "" THEN DefaultName ELSE v.name,   \* bc.name || "Cesta ..."
   items |-> [j \in 1..Len(v.items) |->
                [itemId |-> v.items[j].itemId,
                 quantityRequired |-> v.items[j].quantityRequired]]]

TabStoredConfigs ==
  { [name |-> DefaultName, items |-> <<[itemId |-> "arroz", quantityRequired |-> 1]>>],
    [name |-> DefaultName, items |-> <<[itemId |-> "arroz", quantityRequired |-> 1],
                                       [itemId |-> "feijao", quantityRequired |-> MaxQtd]>>] }

TabHasLine(items, id) == \E j \in 1..Len(items) : items[j].itemId = id

\* addItem: [...c.items, {itemId: first, quantityRequired: 1}]
TabAddedItems(items, rows) ==
  Append(items, [itemId |-> rows[1].id, quantityRequired |-> 1])

\* updateItem: c.items.map((it, i) => (i === idx ? {...it, ...patch} : it))
TabPatchedId(items, idx, v) ==
  [j \in 1..Len(items) |-> IF j = idx THEN [items[j] EXCEPT !.itemId = v] ELSE items[j]]
TabPatchedQuantity(items, idx, v) ==
  [j \in 1..Len(items) |-> IF j = idx THEN [items[j] EXCEPT !.quantityRequired = v] ELSE items[j]]

\* removeItem: c.items.filter((_, i) => i !== idx)
TabRemovedItems(items, idx) ==
  [j \in 1..(Len(items) - 1) |-> IF j < idx THEN items[j] ELSE items[j + 1]]

\* bookkeeping: no handler of the tab since the last refresh
NoTabEdit == [op |-> "none", idx |-> 0, found |-> FALSE, qtd |-> 0,
              before |-> [name |-> DefaultName, items |-> <<>>]]
TabEdited(op, idx, found, qtd) ==
  [op |-> op, idx |-> idx, found |-> found, qtd |-> qtd, before |-> tabConfig]

TabStart ==
  /\ tabInventory = <<>>
  /\ tabConfig = [name |-> DefaultName, items |-> <<>>]
  /\ tabAssembled = 0
  /\ tabLast = NoTabEdit

\* the signed-in user is a viewer, an editor or an admin, on the list of
\* VITE_ADMIN_EMAILS or not
TabInit ==
  /\ TabStart
  /\ \E role \in Roles : \E forceAdmin \in BOOLEAN :
       /\ tabCanEdit = CanEditOf(TRUE, role, forceAdmin)
       /\ tabIsAdmin = IsAdminOf(TRUE, role, forceAdmin)
TabIdle == TabStart /\ tabCanEdit = TRUE /\ tabIsAdmin = TRUE

\* refreshAll, every read succeeding
TabRefreshOk ==
  /\ tabInventory' = LoadedRows(estoque)
  /\ tabConfig' = IF cfg_basket # NoRow THEN ParseTabConfig(cfg_basket[1])
                  ELSE [name |-> DefaultName, items |-> <<>>]
  /\ tabAssembled' = cfg_assembled
  /\ tabLast' = [NoTabEdit EXCEPT !.op = "refresh"]
  /\ UNCHANGED <<dbVars, tabCanEdit, tabIsAdmin, ops, budget>>

\* if (i.error) throw i.error
TabRefreshStockErr ==
  /\ tabLast' = NoTabEdit
  /\ UNCHANGED <<dbVars, tabInventory, tabConfig, tabAssembled, tabCanEdit, tabIsAdmin, ops, budget>>

\* if (cfg.error) throw cfg.error: the inventory is set, the recipe is not
TabRefreshCfgErr ==
  /\ tabInventory' = LoadedRows(estoque)
  /\ tabLast' = NoTabEdit
  /\ UNCHANGED <<dbVars, tabConfig, tabAssembled, tabCanEdit, tabIsAdmin, ops, budget>>

\* the "Adicionar item" button
TabAddItem ==
  /\ tabCanEdit
  /\ Len(tabInventory) > 0
  /\ Len(tabConfig.items) < MaxLines
  /\ Charged
  /\ tabConfig' = [tabConfig EXCEPT !.items = TabAddedItems(@, tabInventory)]
  /\ tabLast' = TabEdited("add", Len(tabConfig.items) + 1,
                          TabHasLine(tabConfig.items, tabInventory[1].id), 1)
  /\ UNCHANGED <<dbVars, tabInventory, tabAssembled, tabCanEdit, tabIsAdmin>>

\* the "Item" select of line idx
TabUpdateItemId(idx, v) ==
  /\ tabCanEdit
  /\ idx \in 1..Len(tabConfig.items)
  /\ \E j \in 1..Len(tabInventory) : tabInventory[j].id = v
  /\ Charged
  /\ tabConfig' = [tabConfig EXCEPT !.items = TabPatchedId(@, idx, v)]
  /\ tabLast' = TabEdited("item", idx,
                          \E j \in 1..Len(tabConfig.items) :
                            j # idx /\ tabConfig.items[j].itemId = v, 0)
  /\ UNCHANGED <<dbVars, tabInventory, tabAssembled, tabCanEdit, tabIsAdmin>>

\* the "Quantidade necessaria" input of line idx; on the line just added it
\* completes the addition
TabUpdateQuantity(idx, v) ==
  /\ tabCanEdit
  /\ Len(tabInventory) > 0
  /\ idx \in 1..Len(tabConfig.items)
  /\ Charged
  /\ tabConfig' = [tabConfig EXCEPT !.items = TabPatchedQuantity(@, idx, v)]
  /\ tabLast' = IF tabLast.op = "add" /\ tabLast.idx = idx
                THEN [tabLast EXCEPT !.qtd = v]
                ELSE TabEdited("quantity", idx, TRUE, v)
  /\ UNCHANGED <<dbVars, tabInventory, tabAssembled, tabCanEdit, tabIsAdmin>>

\* the "Remover" button of line idx; the removal of the line just added is
\* recorded as "undo", with the recipe from before the addition
TabRemoveItem(idx) ==
  /\ tabCanEdit
  /\ Len(tabInventory) > 0
  /\ idx \in 1..Len(tabConfig.items)
  /\ Charged
  /\ tabConfig' = [tabConfig EXCEPT !.items = TabRemovedItems(@, idx)]
  /\ tabLast' = IF tabLast.op = "add" /\ tabLast.idx = idx
                THEN [tabLast EXCEPT !.op = "undo"]
                ELSE TabEdited("remove", idx, TRUE, 0)
  /\ UNCHANGED <<dbVars, tabInventory, tabAssembled, tabCanEdit, tabIsAdmin>>

\* the "Nome da cesta" input
TabSetName(v) ==
  /\ tabCanEdit
  /\ Charged
  /\ tabConfig' = [tabConfig EXCEPT !.name = v]
  /\ tabLast' = TabEdited("rename", 0, FALSE, 0)
  /\ UNCHANGED <<dbVars, tabInventory, tabAssembled, tabCanEdit, tabIsAdmin>>

\* the "Cestas montadas (numero)" input
TabSetAssembled(v) ==
  /\ tabCanEdit
  /\ Charged
  /\ tabAssembled' = v
  /\ tabLast' = TabEdited("counter", 0, FALSE, 0)
  /\ UNCHANGED <<dbVars, tabInventory, tabConfig, tabCanEdit, tabIsAdmin>>

\* saveConfig: upsert of basket_config and assembled_baskets
TabSaveConfigOk ==
  /\ tabCanEdit
  /\ Charged
  /\ cfg_basket' = <<tabConfig>>
  /\ cfg_assembled' = tabAssembled
  /\ tabLast' = TabEdited("save", 0, FALSE, 0)
  /\ UNCHANGED <<estoque, tabInventory, tabConfig, tabAssembled, tabCanEdit, tabIsAdmin>>

\* if (error) onError(error.message)
TabSaveConfigErr ==
  /\ tabCanEdit
  /\ Charged
  /\ tabLast' = TabEdited("saveErr", 0, FALSE, 0)
  /\ UNCHANGED <<dbVars, tabInventory, tabConfig, tabAssembled, tabCanEdit, tabIsAdmin>>

\* the handlers that edit or save the recipe
TabEdit ==
  \/ TabAddItem
  \/ \E idx \in 1..MaxLines : \E v \in Items : TabUpdateItemId(idx, v)
  \/ \E idx \in 1..MaxLines : \E v \in AddQtdInputs : TabUpdateQuantity(idx, v)
  \/ \E idx \in 1..MaxLines : TabRemoveItem(idx)
  \/ \E v \in TabNames : TabSetName(v)
  \/ TabSaveConfigOk
  \/ TabSaveConfigErr

Tab ==
  \/ TabRefreshOk
  \/ TabRefreshStockErr
  \/ TabRefreshCfgErr
  \/ TabEdit
  \/ \E v \in 0..MaxCestas : TabSetAssembled(v)

\* ========================================================= low-stock lists
\* the same inventory rows as the dashboards of App.tsx, part_003 and part_008
\* list them
Variants == {"App.tsx", "part_003", "part_008"}
ThresholdInputs == 0..MaxThreshold

\* inventory.filter(i => i.quantity <= i.minThreshold)        (App.tsx, part_003)
LowStockOf(quantity, minThreshold) == quantity <= minThreshold

\* estoque.filter((i) => Number(i.quantity) < Number(i.minThreshold))   (part_008)
BelowMinimumOf(quantity, minThreshold) == quantity < minThreshold

\* what each variant renders for the rows
Listed(rows) ==
  [v \in Variants |->
     {id \in DOMAIN rows :
        IF v = "part_008"
        THEN BelowMinimumOf(rows[id].quantity, rows[id].minThreshold)
        ELSE LowStockOf(rows[id].quantity, rows[id].minThreshold)}]

AlertInit ==
  /\ alertRows = [i \in {} |-> 0]
  /\ lowStock = Listed(alertRows)
  /\ alertLast = ""
AlertIdle == AlertInit

\* an item is saved through the stock form and the lists are rendered again
AlertSave(id, qty, min) ==
  /\ alertRows' = [x \in DOMAIN alertRows \cup {id} |->
                     IF x = id THEN [quantity |-> qty, minThreshold |-> min]
                     ELSE alertRows[x]]
  /\ lowStock' = Listed(alertRows')
  /\ alertLast' = id

\* an item is deleted and the lists are rendered again
AlertDelete(id) ==
  /\ id \in DOMAIN alertRows
  /\ alertRows' = [x \in DOMAIN alertRows \ {id} |-> alertRows[x]]
  /\ lowStock' = Listed(alertRows')
  /\ alertLast' = id

Alert ==
  \/ \E id \in Items : \E qty \in 0..MaxQty : \E min \in ThresholdInputs : AlertSave(id, qty, min)
  \/ \E id \in Items : AlertDelete(id)

\* ============================================== App.tsx: EventsManager
EventIds == 1..MaxEvents

RECURSIVE Ascending(_)
\* the rows of select('*') as a list (by id; no property depends on the order)
Ascending(S) ==
  IF S = {} THEN <<>>
  ELSE LET m == CHOOSE x \in S : \A y \in S : x <= y
       IN <<m>> \o Ascending(S \ {m})

IdsOf(list) == {list[j] : j \in 1..Len(list)}

\* events.filter(e => e.id !== id)
WithoutEvent(list, id) == SelectSeq(list, LAMBDA e : e # id)

\* [{ id: crypto.randomUUID(), ... }, ...events]
WithEvent(list, id) == <<id>> \o list

NoEvent == [op |-> "none", id |-> 0, pre |-> {}, foreign |-> FALSE]

EventsInit ==
  /\ eventos_entrega = {1}
  /\ events = [c \in Clients |-> <<>>]
  /\ evPc = [c \in Clients |-> "mount"]
  /\ evNext = [c \in Clients |-> <<>>]
  /\ \E e \in BOOLEAN : evCanEdit = [c \in Clients |-> c = "c1" \/ e]
  /\ evLast = [c \in Clients |-> NoEvent]
  /\ evOps = 0

EventsIdle ==
  /\ eventos_entrega = {1}
  /\ events = [c \in Clients |-> <<>>]
  /\ evPc = [c \in Clients |-> "mount"]
  /\ evNext = [c \in Clients |-> <<>>]
  /\ evCanEdit = [c \in Clients |-> TRUE]
  /\ evLast = [c \in Clients |-> NoEvent]
  /\ evOps = 0

\* const { data: e } = await supabase.from('eventos_entrega').select('*'); if(e) setEvents(e)
EvLoadOk(c) ==
  /\ evPc[c] = "mount"
  /\ events' = [events EXCEPT ![c] = Ascending(eventos_entrega)]
  /\ evPc' = [evPc EXCEPT ![c] = "idle"]
  /\ UNCHANGED <<eventos_entrega, evNext, evCanEdit, evLast, evOps>>

\* the select failed: e is null and the list stays
EvLoadErr(c) ==
  /\ evPc[c] = "mount"
  /\ evPc' = [evPc EXCEPT ![c] = "idle"]
  /\ UNCHANGED <<eventos_entrega, events, evNext, evCanEdit, evLast, evOps>>

\* saveEvents(next), up to its first await: setEvents(next)
SaveEventsStart(c, op, id, next) ==
  /\ evPc[c] = "idle"
  /\ evCanEdit[c]
  /\ evOps < MaxEvOps
  /\ evOps' = evOps + 1
  /\ events' = [events EXCEPT ![c] = next]
  /\ evNext' = [evNext EXCEPT ![c] = next]
  /\ evPc' = [evPc EXCEPT ![c] = "delete"]
  /\ evLast' = [evLast EXCEPT ![c] =
        [op |-> op, id |-> id, pre |-> eventos_entrega, foreign |-> FALSE]]
  /\ UNCHANGED <<eventos_entrega, evCanEdit>>

\* add: the new event gets an id no client and no row holds
EvAdd(c, id) ==
  /\ id \notin eventos_entrega
  /\ \A d \in Clients : id \notin IdsOf(events[d]) \cup IdsOf(evNext[d])
  /\ SaveEventsStart(c, "add", id, WithEvent(events[c], id))

\* remove(id)
EvRemove(c, id) ==
  /\ id \in IdsOf(events[c])
  /\ SaveEventsStart(c, "remove", id, WithoutEvent(events[c], id))

\* a write of client c to the table, seen by the handlers of the others
EvWrite(c) ==
  [d \in Clients |->
     IF d # c /\ evLast[d].op # "none" THEN [evLast[d] EXCEPT !.foreign = TRUE]
     ELSE evLast[d]]

\* after the delete: if (next.length) insert(next)
AfterDelete(c) == IF evNext[c] # <<>> THEN "insert" ELSE "idle"

\* await supabase.from('eventos_entrega').delete().neq('id', '')
EvDeleteOk(c) ==
  /\ evPc[c] = "delete"
  /\ eventos_entrega' = {}
  /\ evPc' = [evPc EXCEPT ![c] = AfterDelete(c)]
  /\ evLast' = EvWrite(c)
  /\ UNCHANGED <<events, evNext, evCanEdit, evOps>>

\* the delete failed; its error is not read
EvDeleteErr(c) ==
  /\ evPc[c] = "delete"
  /\ evPc' = [evPc EXCEPT ![c] = AfterDelete(c)]
  /\ UNCHANGED <<eventos_entrega, events, evNext, evCanEdit, evLast, evOps>>

\* await supabase.from('eventos_entrega').insert(next)
EvInsertOk(c) ==
  /\ evPc[c] = "insert"
  /\ IdsOf(evNext[c]) \cap eventos_entrega = {}
  /\ eventos_entrega' = eventos_entrega \cup IdsOf(evNext[c])
  /\ evPc' = [evPc EXCEPT ![c] = "idle"]
  /\ evNext' = [evNext EXCEPT ![c] = <<>>]
  /\ evLast' = EvWrite(c)
  /\ UNCHANGED <<events, evCanEdit, evOps>>

\* the insert failed (connection, or a row with one of the ids exists); its error
\* is not read
EvInsertErr(c) ==
  /\ evPc[c] = "insert"
  /\ evPc' = [evPc EXCEPT ![c] = "idle"]
  /\ evNext' = [evNext EXCEPT ![c] = <<>>]
  /\ UNCHANGED <<eventos_entrega, events, evCanEdit, evLast, evOps>>

EventsStep(c) ==
  \/ EvLoadOk(c)
  \/ EvLoadErr(c)
  \/ \E id \in EventIds : EvAdd(c, id)
  \/ \E id \in EventIds : EvRemove(c, id)
  \/ EvDeleteOk(c)
  \/ EvDeleteErr(c)
  \/ EvInsertOk(c)
  \/ EvInsertErr(c)

\* ============================================ part_003: session and profile
Users == {"ana", "bia"}

NoSession == [user |-> "", no |-> 0]
NoProfile == [id |-> "", role |-> ""]
NoFetch == [kind |-> "none", started |-> 0, at |-> 0]

\* const role: Role = profile?.role ?? "viewer"
RoleOf(p) == IF p = NoProfile THEN "viewer" ELSE p.role

\* adminEmails.includes(emailLower)
ForceAdmin(list, s) == s.user \in list

CanEdit == CanEditOf(session # NoSession, RoleOf(profile), ForceAdmin(adminEmails, session))
IsAdmin == IsAdminOf(session # NoSession, RoleOf(profile), ForceAdmin(adminEmails, session))

\* App.tsx: isAuthorized
AppIsAuthorized(configured, hasSession, list, email) ==
  IF ~configured THEN TRUE
  ELSE IF ~hasSession THEN FALSE
  ELSE IF list = {} THEN TRUE
  ELSE email # "" /\ email \in list

\* App.tsx: ensureProfile leaves profileRole at 'admin' when isAuthorized, else at
\* the role of the row (a missing row is inserted as 'viewer')
EnsuredRole(isAuthorized, rowRole) ==
  IF isAuthorized THEN "admin"
  ELSE IF rowRole = "absent" THEN "viewer" ELSE rowRole

\* App.tsx: canEdit
AppCanEdit(isAuthorized, profileRole) ==
  isAuthorized \/ profileRole = "admin" \/ profileRole = "editor"

\* the cleanup of the profile effect: cancelled = true
Cancelled(F) ==
  {IF f.kind = "effect" THEN [f EXCEPT !.cancelled = TRUE] ELSE f : f \in F}

\* the profile effect guards setProfile by !cancelled; onRoleChanged does not
Applies(f) == f.kind = "roleChanged" \/ ~f.cancelled

StartedFetch(kind) ==
  [kind |-> kind, started |-> session.no, cancelled |-> FALSE, stage |-> "getUser", user |-> ""]

AuthInit ==
  /\ adminEmails \in SUBSET Users
  /\ profiles = [u \in Users |-> IF u = "ana" THEN "admin" ELSE "absent"]
  /\ session = NoSession
  /\ profile = NoProfile
  /\ fetches = {}
  /\ rolePending = FALSE
  /\ newAccounts = {}
  /\ authLast = NoFetch
  /\ authOps = 0

AuthIdle ==
  /\ adminEmails = {}
  /\ profiles = [u \in Users |-> IF u = "ana" THEN "admin" ELSE "absent"]
  /\ session = NoSession
  /\ profile = NoProfile
  /\ fetches = {}
  /\ rolePending = FALSE
  /\ newAccounts = {}
  /\ authLast = NoFetch
  /\ authOps = 0

AuthCharged == authOps < MaxAuthOps /\ authOps' = authOps + 1

\* onAuthStateChange((_evt, s) => setSession(s)) with a session; the profile
\* effect runs: the previous run is cancelled and fetchMyProfile starts
SignIn(u) ==
  /\ session = NoSession
  /\ AuthCharged
  /\ session' = [user |-> u, no |-> authOps + 1]
  /\ fetches' = Cancelled(fetches) \cup
        {[kind |-> "effect", started |-> authOps + 1, cancelled |-> FALSE,
          stage |-> "getUser", user |-> ""]}
  /\ Cardinality(fetches') <= MaxFetches
  /\ UNCHANGED <<adminEmails, profiles, profile, rolePending, newAccounts, authLast>>

\* supabase.auth.signOut(): setSession(null); the effect runs: setProfile(null)
SignOut ==
  /\ session # NoSession
  /\ AuthCharged
  /\ session' = NoSession
  /\ profile' = NoProfile
  /\ fetches' = Cancelled(fetches)
  /\ UNCHANGED <<adminEmails, profiles, rolePending, newAccounts, authLast>>

\* UsersAdmin.setRole: profiles.update({ role }).eq("id", id), then await load()
SetRole(id, role) ==
  /\ IsAdmin
  /\ ~rolePending
  /\ profiles[id] # "absent"
  /\ profiles[id] # role
  /\ AuthCharged
  /\ profiles' = [profiles EXCEPT ![id] = role]
  /\ newAccounts' = newAccounts \ {id}
  /\ rolePending' = TRUE
  /\ UNCHANGED <<adminEmails, session, profile, fetches, authLast>>

\* ... then onRoleChanged(): fetchMyProfile().then(setProfile)
RoleChanged ==
  /\ rolePending
  /\ rolePending' = FALSE
  /\ fetches' = fetches \cup {StartedFetch("roleChanged")}
  /\ Cardinality(fetches') <= MaxFetches
  /\ UNCHANGED <<adminEmails, profiles, session, profile, newAccounts, authLast, authOps>>

\* fetchMyProfile: const { data: { user } } = await supabase.auth.getUser();
\* if (!user) return null
FetchGetUser(f) ==
  /\ f \in fetches
  /\ f.stage = "getUser"
  /\ IF session = NoSession
     THEN /\ fetches' = fetches \ {f}
          /\ IF Applies(f)
             THEN /\ profile' = NoProfile
                  /\ authLast' = [kind |-> f.kind, started |-> f.started, at |-> session.no]
             ELSE UNCHANGED <<profile, authLast>>
     ELSE /\ fetches' = (fetches \ {f}) \cup
                {[f EXCEPT !.stage = "select", !.user = session.user]}
          /\ UNCHANGED <<profile, authLast>>
  /\ UNCHANGED <<adminEmails, profiles, session, rolePending, newAccounts, authOps>>

\* fetchMyProfile: the select by user.id answers; a missing row is inserted with
\* role "viewer"; the caller then sets the profile
FetchSelect(f) ==
  /\ f \in fetches
  /\ f.stage = "select"
  /\ LET absent == profiles[f.user] = "absent"
         role == IF absent THEN "viewer" ELSE profiles[f.user]
     IN /\ profiles' = [profiles EXCEPT ![f.user] = role]
        /\ newAccounts' = IF absent THEN newAccounts \cup {f.user} ELSE newAccounts
        /\ IF Applies(f)
           THEN /\ profile' = [id |-> f.user, role |-> role]
                /\ authLast' = [kind |-> f.kind, started |-> f.started, at |-> session.no]
           ELSE UNCHANGED <<profile, authLast>>
  /\ fetches' = fetches \ {f}
  /\ UNCHANGED <<adminEmails, session, rolePending, authOps>>

Auth ==
  \/ \E u \in Users : SignIn(u)
  \/ SignOut
  \/ \E id \in Users : \E role \in Roles : SetRole(id, role)
  \/ RoleChanged
  \/ \E f \in fetches : FetchGetUser(f)
  \/ \E f \in fetches : FetchSelect(f)

SideIdle == AlertIdle /\ EventsIdle /\ AuthIdle

\* ---------------------------------------------------------- specifications
\* c1 can edit; c2 is an editor or a viewer
CoreInit ==
  \E stored \in {NoRow} \cup {<<v>> : v \in StoredConfigs} :
    \E roles \in {f \in [Clients -> BOOLEAN] : f["c1"]} :
      CoreStart(stored, roles, MaxOps)

CoreIdle == CoreStart(NoRow, [c \in Clients |-> TRUE], MaxOps)

\* c1 alone, an editor or a viewer; c2 never acts
CoreSolo ==
  \E stored \in {NoRow} \cup {<<v>> : v \in StoredConfigs} :
    \E e \in BOOLEAN :
      CoreStart(stored, [c \in Clients |-> c = "c1" /\ e], MaxSoloOps)

\* two clients on the shared tables, each with the recipe it loaded
Init == CoreInit /\ CalcIdle /\ TabIdle /\ SideIdle
Next == (\E c \in Clients : Core(c)) /\ UNCHANGED <<calcVars, tabVars, sideVars>>
Spec == Init /\ [][Next]_vars

\* one client alone on the Cestas page, editing its recipe as well
NextSolo ==
  /\ \/ LoadAll("c1")
     \/ Register("c1")
     \/ Recipe("c1")
     \/ \E q \in InvalidCestas : RegisterStart("c1", q)
  /\ UNCHANGED <<calcVars, tabVars, sideVars>>
InitSolo == CoreSolo /\ CalcIdle /\ TabIdle /\ SideIdle
SpecSolo == InitSolo /\ [][NextSolo]_vars

\* the local calculator of App.tsx
InitCalc == CoreIdle /\ CalcInit /\ TabIdle /\ SideIdle
NextCalc == Calc /\ UNCHANGED <<coreVars, tabVars, sideVars>>
SpecCalc == InitCalc /\ [][NextCalc]_vars

\* the Cestas tab of part_003 on its own tables
CoreTab ==
  \E stored \in {NoRow} \cup {<<v>> : v \in TabStoredConfigs} :
    CoreStart(stored, [c \in Clients |-> TRUE], MaxTabOps)
InitTab == CoreTab /\ CalcIdle /\ TabInit /\ SideIdle
NextTab == Tab /\ UNCHANGED <<clientVars, calcVars, sideVars>>
SpecTab == InitTab /\ [][NextTab]_vars

\* the low-stock lists of the three dashboards over one inventory
InitAlert == CoreIdle /\ CalcIdle /\ TabIdle /\ AlertInit /\ EventsIdle /\ AuthIdle
NextAlert == Alert /\ UNCHANGED <<coreVars, calcVars, tabVars, eventVars, authVars>>
SpecAlert == InitAlert /\ [][NextAlert]_vars

\* two clients on the events page of App.tsx
InitEvents == CoreIdle /\ CalcIdle /\ TabIdle /\ AlertIdle /\ EventsInit /\ AuthIdle
NextEvents ==
  (\E c \in Clients : EventsStep(c)) /\ UNCHANGED <<coreVars, calcVars, tabVars, alertVars, authVars>>
SpecEvents == InitEvents /\ [][NextEvents]_vars

\* one browser: sign-ins, sign-outs, role changes and the profile fetches
InitAuth == CoreIdle /\ CalcIdle /\ TabIdle /\ AlertIdle /\ EventsIdle /\ AuthInit
NextAuth == Auth /\ UNCHANGED <<coreVars, calcVars, tabVars, alertVars, eventVars>>
SpecAuth == InitAuth /\ [][NextAuth]_vars

\* =================================================================== claims
\* vocabulary: the registerBasket of client c has ended and its record is kept
Ended(c) == outcome[c] \in {"ok", "lineErr", "cntErr", "insufficient", "empty"}

\* the lines of that registerBasket, as item -> amount consumed
LineIds(c) == {needed[c][j].id : j \in 1..Len(needed[c])}
Consumed(c, id) ==
  IF id \in LineIds(c)
  THEN (CHOOSE j \in 1..Len(needed[c]) : needed[c][j].id = id) \* recipes have one line per item
  ELSE 0
NeedFor(c, id) == IF id \in LineIds(c) THEN needed[c][Consumed(c, id)].need ELSE 0

\* every persisted quantity is what it was when the attempt began, less its need
StockDecremented(c) ==
  \A id \in DOMAIN estoque : estoque[id] = Have(preEstoque[c], id) - NeedFor(c, id)
StockUntouched(c) == estoque = preEstoque[c]
CounterIncremented(c) == cfg_assembled = preCount[c] + nB[c]
CounterUntouched(c) == cfg_assembled = preCount[c]

\* C1: once registerBasket has ended and nobody else wrote meanwhile, either every
\* recipe line was decremented by need and the counter rose by n, or the persisted
\* stock and counter are what they were before: never stock without counter.
C1_AllOrNothing ==
  \A c \in Clients :
    (Ended(c) /\ foreign[c] = "none") =>
      \/ StockDecremented(c) /\ CounterIncremented(c)
      \/ StockUntouched(c) /\ CounterUntouched(c)

\* C2: when the write of some recipe line fails, no persisted quantity differs
\* from its value before the attempt (earlier writes are rolled back).
C2_LineFailureRollsBack ==
  \A c \in Clients :
    (outcome[c] = "lineErr" /\ foreign[c] = "none") => StockUntouched(c)

StockCheckFails(c) == \E j \in 1..Len(needed[c]) : needed[c][j].have < needed[c][j].need

\* C3 (part_009): a registerBasket for which some recipe line has
\* have < quantidade * n ends as "insufficient" and leaves the persisted stock
\* and counter and the client's own inventory and counter exactly as they were.
C3_FailedCheckChangesNothing ==
  \A c \in Clients :
    (outcome[c] \notin {"none", "applying"} /\ foreign[c] = "none" /\ StockCheckFails(c)) =>
      /\ outcome[c] = "insufficient"
      /\ StockUntouched(c)
      /\ CounterUntouched(c)
      /\ pc[c] = "idle"
      /\ inventory[c] = preLocal[c].inventory
      /\ assembledBaskets[c] = preLocal[c].assembledBaskets
C3_Witness ==
  \E c \in Clients :
    /\ outcome[c] = "insufficient"
    /\ foreign[c] = "none"
    /\ StockCheckFails(c)
    /\ \E id \in DOMAIN estoque : estoque[id] > 0

\* some line's stock was below quantityRequired * 1 when assemble began
CalcStockCheckFails ==
  \E j \in 1..Len(calcConfig.items) :
    StockOf(calcPre.inventory, calcConfig.items[j].itemId)
      < calcConfig.items[j].quantityRequired

\* C3 (App.tsx): an assemble for which some recipe line has stock below
\* quantityRequired leaves every quantity and the baskets counter as they were.
C3_CalcFailedCheckChangesNothing ==
  (calcLast = "assemble" /\ CalcStockCheckFails) =>
    calcInventory = calcPre.inventory /\ baskets = calcPre.baskets

NonNegativeBefore(c) == \A id \in DOMAIN preEstoque[c] : preEstoque[c][id] >= 0

\* C4: after a successful registerBasket of n baskets every recipe line's persisted
\* quantity is its quantity just before the assembly minus quantidade * n, other
\* items are unchanged, and the persisted counter is its previous value plus n.
C4_SuccessArithmetic ==
  \A c \in Clients :
    (outcome[c] = "ok" /\ foreign[c] = "none" /\ NonNegativeBefore(c)) =>
      StockDecremented(c) /\ CounterIncremented(c)

\* C5: every stored stock quantity is >= 0 in every reachable state.
C5_NonNegativeStock ==
  /\ \A id \in DOMAIN estoque : estoque[id] >= 0
  /\ \A c \in Clients : \A id \in DOMAIN inventory[c] : inventory[c][id] >= 0

\* C6: two clients that loaded the same snapshot and each completed an assembly
\* (no manual stock edit in between) leave every persisted quantity equal to the
\* snapshot minus the sum of what the two assemblies consumed, and never negative.
C6_SerializedAssemblies ==
  \A c, d \in Clients :
    (/\ c # d
     /\ outcome[c] = "ok" /\ outcome[d] = "ok"
     /\ foreign[c] # "manual" /\ foreign[d] # "manual"
     /\ preLocal[c].inventory = preLocal[d].inventory) =>
      \A id \in DOMAIN estoque :
        /\ estoque[id] = Have(preLocal[c].inventory, id) - NeedFor(c, id) - NeedFor(d, id)
        /\ estoque[id] >= 0

\* another client's saveItem changed the row after client c loaded it
EditedByOther(c, id) ==
  /\ id \in DOMAIN preLocal[c].inventory
  /\ savedBy[id] \notin {c, "nobody"}
  /\ preLocal[c].inventory[id] # preEstoque[c][id]

\* C7: when another client changed a persisted quantity after this client loaded
\* its snapshot, this client's successful assembly leaves each recipe item at the
\* other client's value minus quantidade * n and every other item untouched.
C7_DeltaNotOverwrite ==
  \A c \in Clients :
    (/\ outcome[c] = "ok" /\ foreign[c] = "none" /\ NonNegativeBefore(c)
     /\ \E id \in LineIds(c) : EditedByOther(c, id)) =>
      StockDecremented(c)

\* ------------------------------------------------- feasibility (SpecCalc)
\* the recipe of the calculator in the field names registerBasket reads
AsCestaItems(items) ==
  [j \in 1..Len(items) |->
     [estoque_id |-> items[j].itemId, quantidade |-> items[j].quantityRequired]]
AsCalcItems(items) ==
  [j \in 1..Len(items) |->
     [itemId |-> items[j].estoque_id, quantityRequired |-> items[j].quantidade]]

\* how registerBasket's validation answers a request for n baskets of recipe
\* `items` against ledger `inv`
Assembling(items, inv, n) ==
  RegisterResult(AsCestaItems(items), NeededOf(AsCestaItems(items), inv, ClampN(n)))

Feasible == StatsMax(calcConfig.items, calcInventory)
NonNegativeLedger == \A id \in DOMAIN calcInventory : calcInventory[id] >= 0
BoundingLines == {j \in 1..Len(calcConfig.items) : calcConfig.items[j].quantityRequired > 0}

\* C8: for a recipe with a line of quantityRequired > 0 and a ledger without
\* negative quantities, when k = stats.max is >= 1 a request for k baskets passes
\* the stock check and a request for k + 1 baskets is refused for insufficient stock.
C8_FeasibilityIsTight ==
  (BoundingLines # {} /\ NonNegativeLedger /\ Feasible >= 1) =>
    /\ Assembling(calcConfig.items, calcInventory, Feasible) = "applying"
    /\ Assembling(calcConfig.items, calcInventory, Feasible + 1) = "insufficient"

\* C9: for a non-empty recipe, stats.max is the minimum of floor(stock / q) over
\* the lines with q > 0 only; a line with q = 0 never determines or caps it.
C9_MinOverBoundingLines ==
  (BoundingLines # {} /\ NonNegativeLedger) =>
    Feasible = MinOf({StockOf(calcInventory, calcConfig.items[j].itemId)
                        \div calcConfig.items[j].quantityRequired : j \in BoundingLines})

\* C10: with an empty recipe the feasibility is 0 whatever the ledger holds, and
\* a registerBasket with an empty recipe changes no stock quantity and not the
\* counter.
C10_EmptyRecipe ==
  \A c \in Clients :
    /\ Len(basketConfig[c].items) = 0 =>
         StatsMax(AsCalcItems(basketConfig[c].items), inventory[c]) = 0
    /\ (Ended(c) /\ Len(needed[c]) = 0 /\ foreign[c] = "none") =>
         /\ outcome[c] = "empty"
         /\ StockUntouched(c)
         /\ CounterUntouched(c)
         /\ inventory[c] = preLocal[c].inventory
         /\ assembledBaskets[c] = preLocal[c].assembledBaskets
C10_Witness ==
  \E c \in Clients :
    /\ outcome[c] = "empty"
    /\ foreign[c] = "none"
    /\ \E id \in DOMAIN inventory[c] : inventory[c][id] > 0
    /\ StatsMax(AsCalcItems(basketConfig[c].items), inventory[c]) = 0

\* ------------------------------------------- lines of a deleted item (SpecCalc)
\* recipe lines whose item is no longer in the inventory
AbsentLines ==
  {j \in 1..Len(calcConfig.items) : calcConfig.items[j].itemId \notin DOMAIN calcInventory}
NonNegativeRecipe ==
  \A j \in 1..Len(calcConfig.items) : calcConfig.items[j].quantityRequired >= 0

C12_InvalidQuantityRejected ==
  \A c \in Clients :
    (outcome[c] # "none" /\ asked[c] <= 0 /\ foreign[c] = "none") =>
      /\ outcome[c] \notin {"applying", "ok", "lineErr", "cntErr"}
      /\ StockUntouched(c)
      /\ CounterUntouched(c)

\* the lines of `needed` that are short of stock, as the message would name them
ShortLines(c) == {j \in 1..Len(needed[c]) : needed[c][j].have < needed[c][j].need}

\* C13: when registerBasket is refused for insufficient stock, the message names
\* every line with have < need, each once and with its need and its have, and
\* no line with have >= need.
C13_EveryShortLineReported ==
  \A c \in Clients :
    outcome[c] = "insufficient" =>
      /\ \A j \in ShortLines(c) :
           \E i \in 1..Len(reported[c]) : reported[c][i] = needed[c][j]
      /\ \A i \in 1..Len(reported[c]) :
           \E j \in ShortLines(c) : reported[c][i] = needed[c][j]
      /\ Len(reported[c]) = Cardinality(ShortLines(c))
C13_Witness ==
  \E c \in Clients :
    /\ outcome[c] = "insufficient"
    /\ Len(needed[c]) = 2
    /\ Cardinality(ShortLines(c)) = 2
    /\ Len(reported[c]) = 2

\* what the first failed attempt of the chain planned to consume of an item
PlannedFor(c, id) ==
  LET rq == first[c][1].request
      js == {j \in 1..Len(rq) : rq[j].id = id}
  IN IF js = {} THEN 0 ELSE rq[CHOOSE j \in js : TRUE].need

\* C14: when a registerBasket that failed is run again by the same client with
\* the same request and succeeds (nobody else wrote meanwhile, and the client's
\* view agreed with the tables at the first attempt), every persisted quantity is
\* its value before the first attempt minus need, and the counter that value plus n.
C14_RetryIsSafe ==
  \A c \in Clients :
    (/\ outcome[c] = "ok"
     /\ first[c] # <<>>
     /\ first[c][1].fresh) =>
      /\ \A id \in DOMAIN estoque :
           estoque[id] = Have(first[c][1].estoque, id) - PlannedFor(c, id)
      /\ cfg_assembled = first[c][1].count + first[c][1].n

\* C15: no step lowers the persisted assembled_baskets counter.
C15_CounterNeverDecreases == [][cfg_assembled' >= cfg_assembled]_vars

\* ------------------------------------------------ recipe edits (SpecSolo)
\* no item id occurs twice in a sequence of ids
NoRepeat(ids) == \A i, j \in 1..Len(ids) : i # j => ids[i] # ids[j]
CestaIds(items) == [j \in 1..Len(items) |-> items[j].estoque_id]

\* C16 (part_009): every recipe held by a client or persisted has at most one line
\* per item, and an addItem for an item that already has a line sets the
\* duplicate message and leaves the recipe as it was.
C16_CestasManagerOneLinePerItem ==
  /\ \A c \in Clients : NoRepeat(CestaIds(basketConfig[c].items))
  /\ cfg_basket # NoRow => NoRepeat(CestaIds(cfg_basket[1].items))
  /\ \A c \in Clients :
       (edit[c].op = "add" /\ edit[c].found) =>
         edit[c].err = "duplicate" /\ basketConfig[c] = edit[c].before
C16_CestasManagerWitness ==
  \E c \in Clients :
    /\ edit[c].op = "add" /\ edit[c].found
    /\ Len(basketConfig[c].items) > 0

\* C17: every recipe line's per-basket quantity is >= 0, locally and persisted,
\* and an addItem with a negative quantity leaves the recipe as it was.
C17_NonNegativeQuantities ==
  /\ \A c \in Clients : \A j \in 1..Len(basketConfig[c].items) :
       basketConfig[c].items[j].quantidade >= 0
  /\ cfg_basket # NoRow =>
       \A j \in 1..Len(cfg_basket[1].items) : cfg_basket[1].items[j].quantidade >= 0
  /\ \A j \in 1..Len(calcConfig.items) : calcConfig.items[j].quantityRequired >= 0
  /\ \A c \in Clients :
       (edit[c].op = "add" /\ edit[c].qtd < 0) => basketConfig[c] = edit[c].before

C19_AddThenRemoveRestores ==
  \A c \in Clients : edit[c].op = "undo" => basketConfig[c] = edit[c].before
C19_Witness ==
  \E c \in Clients :
    /\ edit[c].op = "undo"
    /\ edit[c].qtd = 5
    /\ Len(edit[c].before.items) > 0

\* a step of one of the recipe handlers: they are the handlers that leave a
\* record in edit
RecipeStep == ops' # ops /\ \E c \in Clients : edit'[c].op # "none"

\* C20: a step of addItem, updateItemQtd, removeItem, the name input or
\* saveConfig changes no quantity of the table "estoque" and of no client's inventory.
C20_ConfigEditsKeepStock ==
  [][RecipeStep => UNCHANGED <<estoque, inventory>>]_vars
C20_Witness ==
  \E c \in Clients :
    /\ edit[c].op = "save" /\ edit[c].err = "none"
    /\ cfg_basket = <<basketConfig[c]>>
    /\ Len(basketConfig[c].items) > 0
    /\ \E id \in DOMAIN inventory[c] : inventory[c][id] > 0 /\ estoque[id] > 0

\* ------------------------------------------------- recipe edits (SpecTab)
TabIds(items) == [j \in 1..Len(items) |-> items[j].itemId]

\* C16: every recipe of the Cestas tab, in React state or persisted, has at most
\* one line per item, and an addItem for an item that already has a line leaves
\* the recipe as it was.
C16_OneLinePerItem ==
  /\ NoRepeat(TabIds(tabConfig.items))
  /\ cfg_basket # NoRow => NoRepeat(TabIds(cfg_basket[1].items))
  /\ (tabLast.op = "add" /\ tabLast.found) => tabConfig = tabLast.before

\* C19 (part_003): the removal of the line addItem has just appended leaves the
\* recipe as it was before the addition.
C19_TabAddThenRemoveRestores ==
  tabLast.op = "undo" => tabConfig = tabLast.before
C19_TabWitness ==
  /\ tabLast.op = "undo"
  /\ tabLast.qtd = 5
  /\ Len(tabLast.before.items) > 0

\* C20 (part_003): no handler of the tab that edits or saves the recipe changes
\* a quantity of the table "estoque" or of the loaded inventory.
C20_TabEditsKeepStock ==
  [][TabEdit => UNCHANGED <<estoque, tabInventory>>]_vars

\* ------------------------------------------------- stock ledger (SpecCalc)
\* C21: an adjustQty whose result would be below 0 reports insufficient stock
\* and leaves the quantity as it was (it does not store 0 instead); otherwise
\* it stores exactly quantity + delta.
C21_AdjustBelowZeroFails ==
  calcLast = "adjust" =>
    IF calcAdj.was + calcAdj.delta < 0
    THEN calcAdj.err = "insufficient" /\ calcInventory[calcAdj.id] = calcAdj.was
    ELSE calcInventory[calcAdj.id] = calcAdj.was + calcAdj.delta

\* ------------------------------------------------ save and load of the recipe
\* C22 (part_009): what loadAll makes of the persisted recipe is that recipe:
\* the name and the lines of the last save, in order.
C22_CestasManagerRoundTrip ==
  cfg_basket # NoRow => ParseConfig(cfg_basket[1]) = cfg_basket[1]

\* C22: right after a refreshAll the recipe of the Cestas tab is exactly the
\* value the last successful save left under basket_config.
C22_LoadReturnsLastSave ==
  (tabLast.op = "refresh" /\ cfg_basket # NoRow) => tabConfig = cfg_basket[1]

\* ------------------------------------------------------ the counter (SpecTab)
\* C23: the persisted assembled_baskets counter and the one in React state
\* change under the hands of an admin only (the Cestas tab has no assembly).
C23_CounterOverrideByAdminOnly ==
  [][(cfg_assembled' # cfg_assembled \/ tabLast'.op = "counter") => tabIsAdmin]_vars

\* ---------------------------------------------------- low stock (SpecAlert)
\* C25: in every variant an item is listed as low on stock exactly when its
\* quantity is at or below its minThreshold.
C25_LowStockAtOrBelowThreshold ==
  \A v \in Variants : \A id \in DOMAIN alertRows :
    id \in lowStock[v] <=> alertRows[id].quantity <= alertRows[id].minThreshold

C26_TabViewerChangesNothing ==
  ~tabCanEdit => tabLast.op \in {"none", "refresh"}

\* ------------------------------------------------ assembly never adds stock
\* C27: no step of an assembly (the "baixa" loop of registerBasket, assemble of the
\* local calculator) raises the persisted or local quantity of any stock item.
C27_AssemblyNeverIncreasesStock ==
  [][/\ (\E c \in Clients : pc[c] = "apply") =>
          \A id \in DOMAIN estoque : estoque'[id] <= estoque[id]
     /\ calcLast' = "assemble" =>
          \A id \in DOMAIN calcInventory' : calcInventory'[id] <= calcPre'.inventory[id]]_vars

\* ------------------------------------------------ the recipe after an assembly
\* C28: once a registerBasket has succeeded and the reload it triggers has ended,
\* the recipe name and lines the client holds are the ones the assembly was
\* computed from, saved or not.
C28_AssemblyKeepsRecipe ==
  \A c \in Clients :
    (outcome[c] = "ok" /\ pc[c] = "idle") => basketConfig[c] = preLocal[c].basketConfig

\* ------------------------------------------------------ events (SpecEvents)
\* C29: once an add or remove of EventsManager has ended and no other client
\* wrote meanwhile, the persisted events are those of the moment it began with
\* exactly the targeted event added or removed.
C29_OnlyTargetedEventChanges ==
  \A c \in Clients :
    (evPc[c] = "idle" /\ evLast[c].op # "none" /\ ~evLast[c].foreign) =>
      eventos_entrega = IF evLast[c].op = "add"
                        THEN evLast[c].pre \cup {evLast[c].id}
                        ELSE evLast[c].pre \ {evLast[c].id}

\* ---------------------------------------------------- accounts (SpecAuth)
\* C24: a signed-in user whose profile row was created by fetchMyProfile and has
\* not been changed by an admin (role viewer) cannot edit, in part_003/part_009
\* and in App.tsx, whatever the admin e-mail list holds.
C24_NewAccountReadOnly ==
  (/\ session # NoSession
   /\ session.user \in newAccounts
   /\ profile = [id |-> session.user, role |-> "viewer"]) =>
    /\ ~CanEdit
    /\ LET isAuthorized == AppIsAuthorized(TRUE, TRUE, adminEmails, session.user)
       IN ~AppCanEdit(isAuthorized, EnsuredRole(isAuthorized, profiles[session.user]))

\* C30: with no session the profile is null and canEdit and isAdmin are false; a
\* profile that is set belongs to the signed-in user; and the fetchMyProfile that
\* set the profile last began under the sign-in current when it ended.
C30_ProfileOfCurrentSession ==
  /\ session = NoSession => (profile = NoProfile /\ ~CanEdit /\ ~IsAdmin)
  /\ profile # NoProfile => profile.id = session.user
  /\ authLast.kind # "none" => authLast.started = authLast.at

\* C30 (part_009, which has no onRoleChanged): as long as only the profile effect
\* has set the profile, it is the profile of the current session.
C30_EffectFetchesAreGuarded ==
  authLast.kind \in {"none", "effect"} =>
    /\ session = NoSession => profile = NoProfile
    /\ profile # NoProfile => profile.id = session.user
    /\ authLast.kind = "effect" => authLast.started = authLast.at

====
